---- MODULE Spec2Model ----
(***************************************************************************)
(* MerkleProofVoting: the BallotFactory contract (the ledger), the         *)
(* MerkleService of merkle-api (the proof service) and the Merkle tree     *)
(* they share.                                                             *)
(*                                                                         *)
(* Byte strings are sequences of integers.  keccak256 is modelled as a     *)
(* collision-free hash: the digest of a byte string is that string behind  *)
(* the marker -1, so that two digests are equal exactly when their         *)
(* preimages are.  Digests are ordered as byte strings are (first          *)
(* differing word decides).                                                *)
(***************************************************************************)
EXTENDS Integers, Sequences, FiniteSets, TLC

(* ------------------------------ bounds -------------------------------- *)

\* identities (addresses) that act on the ledger and appear in whitelists
NumVoters == 2
\* ballots the registry may hold
MaxBallots == 2
\* longest proposal list passed to createBallot
MaxProposals == 2
\* events the log may hold
MaxEvents == 4
\* rows the whitelist table may hold for one ballot
MaxEntries == 2
\* requests the service may be serving at once
MaxRequests == 1
\* identities of the pure accumulator checks (whitelist sizes 1..MaxLeaves)
MaxLeaves == 5
\* async calls of the service that interleave in the concurrency checks
NumTasks == 2
\* longest proof an identity outside the whitelist makes up from digests
MaxForgedLen == 2
\* largest whitelist of the ballot an identity outside it votes on
MaxWhitelist == 3

Voters == 1..NumVoters
BallotIds == 0..(MaxBallots - 1)
\* ids a caller may pass: every existing id and one that never exists
IdInputs == 0..MaxBallots
\* proposal indices a caller may pass: every valid index and one out of range
ProposalInputs == 0..MaxProposals
AllNames == <<"X", "Y", "Z", "W">>
NameLists == {SubSeq(AllNames, 1, n) : n \in 0..MaxProposals}
\* proposal lists an operator sends through the service: none, and one name
OperatorNameLists == {<<>>, <<"X">>}

(* --------------------------- byte strings ----------------------------- *)

RECURSIVE BytesLess(_, _)
BytesLess(x, y) ==
  IF x = <<>> THEN y # <<>>
  ELSE IF y = <<>> THEN FALSE
  ELSE IF Head(x) # Head(y) THEN Head(x) < Head(y)
  ELSE BytesLess(Tail(x), Tail(y))

Keccak256(bytes) == <<-1>> \o bytes

\* abi.encodePacked(address): the 20 bytes of the address
EncodePacked(a) == <<a>>
\* encodeAbiParameters([{type: 'address'}], [a]): left-padded to 32 bytes
EncodeAbiParameters(a) == <<0, a>>

\* the leaf the contract derives from msg.sender
LedgerLeaf(a) == Keccak256(EncodePacked(a))
\* the leaf the service derives from an address
ServiceLeaf(a) == Keccak256(EncodeAbiParameters(a))

(* ----------------------------- Merkle tree ---------------------------- *)

\* merkletreejs with sortPairs: the pair is sorted, concatenated and hashed
SortedPairHash(a, b) ==
  IF BytesLess(b, a) THEN Keccak256(b \o a) ELSE Keccak256(a \o b)

\* one level up; an odd last node is promoted unchanged
NextLayer(nodes) ==
  [i \in 1..((Len(nodes) + 1) \div 2) |->
     IF 2 * i <= Len(nodes) THEN SortedPairHash(nodes[2 * i - 1], nodes[2 * i])
     ELSE nodes[2 * i - 1]]

RECURSIVE Layers(_)
Layers(nodes) ==
  IF Len(nodes) <= 1 THEN <<nodes>> ELSE <<nodes>> \o Layers(NextLayer(nodes))

\* getHexRoot: the single node of the top layer, empty for a tree without leaves
HexRoot(leaves) ==
  LET top == Layers(leaves)[Len(Layers(leaves))]
  IN IF top = <<>> THEN <<>> ELSE top[1]

\* the (0-based) index getProof finds: the last leaf equal to `leaf`, else -1
LeafIndex(leaves, leaf) ==
  LET hits == {i \in 1..Len(leaves) : leaves[i] = leaf}
  IN IF hits = {} THEN -1 ELSE (CHOOSE i \in hits : \A j \in hits : j <= i) - 1

RECURSIVE ProofFrom(_, _, _)
ProofFrom(layers, k, index) ==
  IF k > Len(layers) THEN <<>>
  ELSE LET layer == layers[k]
           pairIndex == IF index % 2 = 1 THEN index - 1 ELSE index + 1
           here == IF pairIndex < Len(layer) THEN <<layer[pairIndex + 1]>> ELSE <<>>
       IN here \o ProofFrom(layers, k + 1, index \div 2)

\* getHexProof
HexProof(leaves, leaf) ==
  IF LeafIndex(leaves, leaf) <= -1 THEN <<>>
  ELSE ProofFrom(Layers(leaves), 1, LeafIndex(leaves, leaf))

\* a pair hashed in the order given, without sorting it
UnsortedKeccak256(a, b) == Keccak256(a \o b)

\* OpenZeppelin MerkleProof: commutative hash of a pair
CommutativeKeccak256(a, b) ==
  IF BytesLess(a, b) THEN Keccak256(a \o b) ELSE Keccak256(b \o a)

RECURSIVE ProcessProof(_, _)
ProcessProof(proof, computedHash) ==
  IF proof = <<>> THEN computedHash
  ELSE ProcessProof(Tail(proof), CommutativeKeccak256(computedHash, Head(proof)))

\* a verify that accepts whatever the proof hashes up to, not the root it is given
VerifyIgnoringRoot(proof, root, leaf) == ProcessProof(proof, leaf) # <<>>

\* MerkleProof.verify(proof, root, leaf)
Verify(proof, root, leaf) == ProcessProof(proof, leaf) = root

(* ------------------------------- state -------------------------------- *)

VARIABLES
  ballotCount,            \* BallotFactory.ballotCount
  ballots,                \* BallotFactory.ballots: id -> Ballot
  events,                 \* the contract's event log
  last,                   \* the last transaction: its call and how it ended
  merkleTreesByBallotId,  \* MerkleService: key -> the leaves of the tree kept
  whitelist,              \* whitelist_entries: ballotId -> addresses, in row order
  reqs,                   \* MerkleService: the async calls under way (requests, the loader)
  acc                     \* the accumulator exercised on its own

ledgerVars == <<ballotCount, ballots, events, last>>
serviceVars == <<merkleTreesByBallotId, whitelist, reqs>>
vars == <<ballotCount, ballots, events, last, merkleTreesByBallotId, whitelist, reqs, acc>>

(* ------------------------ BallotFactory (ledger) ---------------------- *)

\* bytes32(0): the root of a ballot slot never written
ZeroRoot == <<0>>

\* a storage slot of the ballots mapping before createBallot writes it
EmptyBallot ==
  [merkleRoot |-> ZeroRoot,
   proposalNames |-> <<>>,
   proposalVotes |-> [p \in ProposalInputs |-> 0],
   hasVoted |-> {},
   active |-> FALSE]

\* what a sender learns of a transaction: the call, and "ok" or the revert reason
Receipt(op, result) == [op |-> op, result |-> result]

\* a vote that does not look at the active flag
VoteOutcomeIgnoringActive(sender, ballotId, proposalId, proof) ==
  IF ~(ballotId < ballotCount) THEN "Ballot does not exist"
  ELSE IF ~(proposalId < Len(ballots[ballotId].proposalNames)) THEN "Invalid proposal"
  ELSE IF sender \in ballots[ballotId].hasVoted THEN "Already voted in this ballot"
  ELSE IF ~Verify(proof, ballots[ballotId].merkleRoot, LedgerLeaf(sender))
    THEN "Invalid proof, not in whitelist"
  ELSE "ok"

\* a vote that does not check the proof
VoteOutcomeIgnoringProof(sender, ballotId, proposalId, proof) ==
  IF ~(ballotId < ballotCount) THEN "Ballot does not exist"
  ELSE IF ~ballots[ballotId].active THEN "Ballot is not active"
  ELSE IF ~(proposalId < Len(ballots[ballotId].proposalNames)) THEN "Invalid proposal"
  ELSE IF sender \in ballots[ballotId].hasVoted THEN "Already voted in this ballot"
  ELSE "ok"

\* a vote that refuses a sender who has voted on any ballot
VoteOutcomeVotedAnywhere(sender, ballotId, proposalId, proof) ==
  IF ~(ballotId < ballotCount) THEN "Ballot does not exist"
  ELSE IF ~ballots[ballotId].active THEN "Ballot is not active"
  ELSE IF ~(proposalId < Len(ballots[ballotId].proposalNames)) THEN "Invalid proposal"
  ELSE IF \E b \in BallotIds : sender \in ballots[b].hasVoted
    THEN "Already voted in this ballot"
  ELSE IF ~Verify(proof, ballots[ballotId].merkleRoot, LedgerLeaf(sender))
    THEN "Invalid proof, not in whitelist"
  ELSE "ok"

\* a vote that checks the proposal index before the active flag
VoteOutcomeProposalFirst(sender, ballotId, proposalId, proof) ==
  IF ~(ballotId < ballotCount) THEN "Ballot does not exist"
  ELSE IF ~(proposalId < Len(ballots[ballotId].proposalNames)) THEN "Invalid proposal"
  ELSE IF ~ballots[ballotId].active THEN "Ballot is not active"
  ELSE IF sender \in ballots[ballotId].hasVoted THEN "Already voted in this ballot"
  ELSE IF ~Verify(proof, ballots[ballotId].merkleRoot, LedgerLeaf(sender))
    THEN "Invalid proof, not in whitelist"
  ELSE "ok"

\* a vote that does not check the proposal index
VoteOutcomeAnyIndex(sender, ballotId, proposalId, proof) ==
  IF ~(ballotId < ballotCount) THEN "Ballot does not exist"
  ELSE IF ~ballots[ballotId].active THEN "Ballot is not active"
  ELSE IF sender \in ballots[ballotId].hasVoted THEN "Already voted in this ballot"
  ELSE IF ~Verify(proof, ballots[ballotId].merkleRoot, LedgerLeaf(sender))
    THEN "Invalid proof, not in whitelist"
  ELSE "ok"

\* the require that fails in vote, in the order the requires are written
VoteOutcome(sender, ballotId, proposalId, proof) ==
  IF ~(ballotId < ballotCount) THEN "Ballot does not exist"
  ELSE IF ~ballots[ballotId].active THEN "Ballot is not active"
  ELSE IF ~(proposalId < Len(ballots[ballotId].proposalNames)) THEN "Invalid proposal"
  ELSE IF sender \in ballots[ballotId].hasVoted THEN "Already voted in this ballot"
  ELSE IF ~Verify(proof, ballots[ballotId].merkleRoot, LedgerLeaf(sender))
    THEN "Invalid proof, not in whitelist"
  ELSE "ok"

\* a vote counted without marking the sender
RecordVoteUnmarked(ballot, sender, proposalId) ==
  [ballot EXCEPT !.proposalVotes[proposalId] = @ + 1]

\* a vote counted for every proposal of the ballot
RecordVoteEveryProposal(ballot, sender, proposalId) ==
  [ballot EXCEPT !.proposalVotes = [q \in ProposalInputs |-> @[q] + 1],
                 !.hasVoted = @ \cup {sender}]

\* a vote recorded by overwriting the voted set with its sender
RecordVoteForgetsOthers(ballot, sender, proposalId) ==
  [ballot EXCEPT !.proposalVotes[proposalId] = @ + 1,
                 !.hasVoted = {sender}]

\* the ballot after a vote is recorded
RecordVote(ballot, sender, proposalId) ==
  [ballot EXCEPT !.proposalVotes[proposalId] = @ + 1,
                 !.hasVoted = @ \cup {sender}]

\* a vote that counts before it verifies the proof and does not roll back
VoteTxCountsFirst(sender, ballotId, proposalId, proof) ==
  LET result == VoteOutcome(sender, ballotId, proposalId, proof)
      counted == result \in {"ok", "Invalid proof, not in whitelist"}
  IN /\ result = "ok" => Len(events) < MaxEvents
     /\ last' = Receipt("vote", result)
     /\ ballots' = IF counted
                   THEN [ballots EXCEPT ![ballotId] = RecordVote(@, sender, proposalId)]
                   ELSE ballots
     /\ events' = IF result = "ok"
                  THEN Append(events, <<"VoteCast", ballotId, sender, proposalId>>)
                  ELSE events
     /\ UNCHANGED ballotCount

\* a vote that emits no event
VoteTxSilent(sender, ballotId, proposalId, proof) ==
  LET result == VoteOutcome(sender, ballotId, proposalId, proof)
  IN /\ last' = Receipt("vote", result)
     /\ ballots' = IF result = "ok"
                   THEN [ballots EXCEPT ![ballotId] = RecordVote(@, sender, proposalId)]
                   ELSE ballots
     /\ UNCHANGED <<events, ballotCount>>

\* the transaction vote(ballotId, proposalId, merkleProof) sent by sender
VoteTx(sender, ballotId, proposalId, proof) ==
  LET result == VoteOutcome(sender, ballotId, proposalId, proof)
  IN /\ result = "ok" => Len(events) < MaxEvents
     /\ last' = Receipt("vote", result)
     /\ IF result = "ok"
        THEN /\ ballots' = [ballots EXCEPT ![ballotId] = RecordVote(@, sender, proposalId)]
             /\ events' = Append(events, <<"VoteCast", ballotId, sender, proposalId>>)
        ELSE UNCHANGED <<ballots, events>>
     /\ UNCHANGED ballotCount

\* a createBallot that accepts every proposal list
CreateBallotOutcomeAnyList(names) == "ok"

CreateBallotOutcome(names) ==
  IF ~(Len(names) > 0) THEN "No proposals provided" ELSE "ok"

\* a slot written without the root
NewBallotWithoutRoot(slot, root, names) ==
  [slot EXCEPT !.active = TRUE, !.proposalNames = @ \o names]

\* the storage slot after createBallot has written it
NewBallot(slot, root, names) ==
  [slot EXCEPT !.merkleRoot = root, !.active = TRUE,
               !.proposalNames = @ \o names]

\* a createBallot that does not move ballotCount on
CreateBallotTxSameId(root, names) ==
  LET result == IF ~(Len(names) > 0) THEN "No proposals provided" ELSE "ok"
  IN /\ result = "ok" => (ballotCount < MaxBallots /\ Len(events) < MaxEvents)
     /\ last' = Receipt("createBallot", result)
     /\ IF result = "ok"
        THEN /\ ballots' = [ballots EXCEPT ![ballotCount] =
                              [@ EXCEPT !.merkleRoot = root, !.active = TRUE,
                                        !.proposalNames = names]]
             /\ events' = Append(events, <<"BallotCreated", ballotCount, names>>)
        ELSE UNCHANGED <<ballots, events>>
     /\ UNCHANGED ballotCount

\* the transaction createBallot(_merkleRoot, _proposalNames)
CreateBallotTx(root, names) ==
  LET result == CreateBallotOutcome(names)
  IN /\ result = "ok" => (ballotCount < MaxBallots /\ Len(events) < MaxEvents)
     /\ last' = Receipt("createBallot", result)
     /\ IF result = "ok"
        THEN /\ ballots' = [ballots EXCEPT ![ballotCount] = NewBallot(@, root, names)]
             /\ events' = Append(events, <<"BallotCreated", ballotCount, names>>)
             /\ ballotCount' = ballotCount + 1
        ELSE UNCHANGED <<ballots, events, ballotCount>>

\* a check that finds every ballot id
ExistsOutcomeAlways(ballotId) == "ok"

ExistsOutcome(ballotId) ==
  IF ~(ballotId < ballotCount) THEN "Ballot does not exist" ELSE "ok"

\* a closeBallot that flips the active flag
CloseBallotTxToggles(ballotId) ==
  LET result == IF ~(ballotId < ballotCount) THEN "Ballot does not exist" ELSE "ok"
  IN /\ result = "ok" => Len(events) < MaxEvents
     /\ last' = Receipt("closeBallot", result)
     /\ IF result = "ok"
        THEN /\ ballots' = [ballots EXCEPT ![ballotId].active = ~@]
             /\ events' = Append(events, <<"BallotClosed", ballotId>>)
        ELSE UNCHANGED <<ballots, events>>
     /\ UNCHANGED ballotCount

\* the transaction closeBallot(ballotId)
CloseBallotTx(ballotId) ==
  LET result == ExistsOutcome(ballotId)
  IN /\ result = "ok" => Len(events) < MaxEvents
     /\ last' = Receipt("closeBallot", result)
     /\ IF result = "ok"
        THEN /\ ballots' = [ballots EXCEPT ![ballotId].active = FALSE]
             /\ events' = Append(events, <<"BallotClosed", ballotId>>)
        ELSE UNCHANGED <<ballots, events>>
     /\ UNCHANGED ballotCount

\* an updateMerkleRoot that writes the root of every ballot
UpdateMerkleRootTxEveryBallot(ballotId, newMerkleRoot) ==
  LET result == IF ~(ballotId < ballotCount) THEN "Ballot does not exist" ELSE "ok"
  IN /\ last' = Receipt("updateMerkleRoot", result)
     /\ IF result = "ok"
        THEN ballots' = [b \in BallotIds |->
                           IF b < ballotCount
                           THEN [ballots[b] EXCEPT !.merkleRoot = newMerkleRoot]
                           ELSE ballots[b]]
        ELSE UNCHANGED ballots
     /\ UNCHANGED <<events, ballotCount>>

\* an updateMerkleRoot that refuses a closed ballot
UpdateMerkleRootTxOpenOnly(ballotId, newMerkleRoot) ==
  LET result == IF ~(ballotId < ballotCount) THEN "Ballot does not exist"
                ELSE IF ~ballots[ballotId].active THEN "Ballot is not active"
                ELSE "ok"
  IN /\ last' = Receipt("updateMerkleRoot", result)
     /\ IF result = "ok"
        THEN ballots' = [ballots EXCEPT ![ballotId].merkleRoot = newMerkleRoot]
        ELSE UNCHANGED ballots
     /\ UNCHANGED <<events, ballotCount>>

\* the transaction updateMerkleRoot(ballotId, newMerkleRoot)
UpdateMerkleRootTx(ballotId, newMerkleRoot) ==
  LET result == ExistsOutcome(ballotId)
  IN /\ last' = Receipt("updateMerkleRoot", result)
     /\ IF result = "ok"
        THEN ballots' = [ballots EXCEPT ![ballotId].merkleRoot = newMerkleRoot]
        ELSE UNCHANGED ballots
     /\ UNCHANGED <<events, ballotCount>>

\* the views
GetVoteCount(ballotId, proposalId) == ballots[ballotId].proposalVotes[proposalId]
HasVoted(ballotId, voter) == voter \in ballots[ballotId].hasVoted
GetProposalNames(ballotId) == ballots[ballotId].proposalNames

\* a call of a view: its require, and nothing is written
GetVoteCountCall(ballotId, proposalId) ==
  /\ last' = Receipt("getVoteCount",
                IF ~(ballotId < ballotCount) THEN "Ballot does not exist" ELSE "ok")
  /\ UNCHANGED <<ballots, events, ballotCount>>

HasVotedCall(ballotId, voter) ==
  /\ last' = Receipt("hasVoted",
                IF ~(ballotId < ballotCount) THEN "Ballot does not exist" ELSE "ok")
  /\ UNCHANGED <<ballots, events, ballotCount>>

GetProposalNamesCall(ballotId) ==
  /\ last' = Receipt("getProposalNames",
                IF ~(ballotId < ballotCount) THEN "Ballot does not exist" ELSE "ok")
  /\ UNCHANGED <<ballots, events, ballotCount>>

(* ------------------------ what callers may send ------------------------ *)

RECURSIVE InjectiveSeqs(_, _)
\* the sequences of at most n distinct members of S
InjectiveSeqs(S, n) ==
  IF n = 0 THEN {<<>>}
  ELSE LET shorter == InjectiveSeqs(S, n - 1)
       IN shorter \cup
          {Append(w, a) : <<w, a>> \in
             {x \in shorter \X S : \A i \in 1..Len(x[1]) : x[1][i] # x[2]}}

\* whitelists a voter may build a tree from off the ledger, as the tests do
VoterLists == InjectiveSeqs(Voters, NumVoters) \ {<<>>}
LedgerLeaves(w) == [i \in 1..Len(w) |-> LedgerLeaf(w[i])]
ServiceLeaves(w) == [i \in 1..Len(w) |-> ServiceLeaf(w[i])]

\* roots a caller may pass to createBallot and updateMerkleRoot
RootInputs == {HexRoot(LedgerLeaves(w)) : w \in VoterLists}
\* proofs a caller may pass to vote
ProofInputs ==
  {<<>>} \cup {HexProof(LedgerLeaves(w), LedgerLeaf(w[i])) :
                 <<w, i>> \in {x \in VoterLists \X (1..NumVoters) : x[2] <= Len(x[1])}}

(* ------------------------ MerkleService (service) ---------------------- *)

\* the keys of merkleTreesByBallotId: the temporary id -1 and the ballot ids
TreeKeys == {-1} \cup BallotIds
NoTree == [has |-> FALSE, leaves |-> <<>>]
Slots == 1..MaxRequests

IdleReq ==
  [op |-> "idle", pc |-> "idle", status |-> "none", ballotId |-> -1, names |-> <<>>,
   addresses |-> <<>>, address |-> 0, tree |-> <<>>, root |-> <<>>,
   proof |-> <<>>, isWhitelisted |-> FALSE, count |-> 0]

Free(s) == reqs[s].pc \in {"idle", "done"}
Members(w) == {w[i] : i \in 1..Len(w)}

\* buildMerkleTree: the tree it returns (a tree kept under the id wins) ...
BuiltTree(trees, ballotId, addresses) ==
  IF trees[ballotId].has THEN trees[ballotId].leaves ELSE ServiceLeaves(addresses)

\* ... and the map it leaves
TreesAfterBuild(trees, ballotId, addresses) ==
  IF trees[ballotId].has THEN trees
  ELSE [trees EXCEPT ![ballotId] = [has |-> TRUE, leaves |-> ServiceLeaves(addresses)]]

\* a hex string viem encodes as bytes32: the root of a tree without leaves is "0x"
EncodesAsBytes32(root) == root # <<>>

\* a request that has thrown: only the call and its ballot are left of it
Failed(req) ==
  [IdleReq EXCEPT !.op = req.op, !.pc = "done", !.status = "error",
                  !.ballotId = req.ballotId]

\* a request that has returned: the call, its ballot and what it returns
Returned(req, root, proof, isWhitelisted) ==
  [IdleReq EXCEPT !.op = req.op, !.pc = "done", !.status = "ok",
                  !.ballotId = req.ballotId, !.address = req.address, !.root = root,
                  !.proof = proof, !.isWhitelisted = isWhitelisted]

\* createBallot, to its first await: the tree, its root, the transaction is sent
StartCreateBallot(s, names, addresses) ==
  /\ Free(s)
  /\ merkleTreesByBallotId' = TreesAfterBuild(merkleTreesByBallotId, -1, addresses)
  /\ reqs' = [reqs EXCEPT ![s] =
       [IdleReq EXCEPT !.op = "createBallot", !.pc = "cb_write", !.names = names,
                       !.addresses = addresses,
                       !.tree = BuiltTree(merkleTreesByBallotId, -1, addresses),
                       !.root = HexRoot(BuiltTree(merkleTreesByBallotId, -1, addresses))]]
  /\ UNCHANGED <<ledgerVars, whitelist, acc>>

\* writeContract(createBallot) and its receipt; it throws when the arguments do
\* not encode or the call would revert, and then nothing is mined
CreateBallotWrite(s) ==
  /\ reqs[s].pc = "cb_write"
  /\ IF EncodesAsBytes32(reqs[s].root) /\ CreateBallotOutcome(reqs[s].names) = "ok"
     THEN /\ CreateBallotTx(reqs[s].root, reqs[s].names)
          /\ reqs' = [reqs EXCEPT ![s].pc = "cb_count"]
     ELSE /\ reqs' = [reqs EXCEPT ![s] = Failed(@)]
          /\ UNCHANGED ledgerVars
  /\ UNCHANGED <<merkleTreesByBallotId, whitelist, acc>>

\* ballotCount is read, the id is taken to be ballotCount - 1, the tree is kept under it
CreateBallotCount(s) ==
  /\ reqs[s].pc = "cb_count"
  /\ reqs' = [reqs EXCEPT ![s].pc = "cb_save", ![s].ballotId = ballotCount - 1]
  /\ merkleTreesByBallotId' =
       [merkleTreesByBallotId EXCEPT ![ballotCount - 1] =
          [has |-> TRUE, leaves |-> reqs[s].tree]]
  /\ UNCHANGED <<ledgerVars, whitelist, acc>>

\* saveWhitelistEntries: one row per address
SavedEntries(table, ballotId, addresses) ==
  [table EXCEPT ![ballotId] = @ \o addresses]

CreateBallotSave(s) ==
  /\ reqs[s].pc = "cb_save"
  /\ Len(whitelist[reqs[s].ballotId]) + Len(reqs[s].addresses) <= MaxEntries
  /\ whitelist' = SavedEntries(whitelist, reqs[s].ballotId, reqs[s].addresses)
  /\ reqs' = [reqs EXCEPT ![s] = Returned(@, @.root, <<>>, FALSE)]
  /\ UNCHANGED <<ledgerVars, merkleTreesByBallotId, acc>>

\* addToWhitelist, to its first await: ballotCount is read
StartAddToWhitelist(s, ballotId, addresses) ==
  /\ Free(s)
  /\ reqs' = [reqs EXCEPT ![s] =
       IF ballotId >= ballotCount
       THEN Failed([IdleReq EXCEPT !.op = "addToWhitelist", !.ballotId = ballotId,
                                   !.addresses = addresses])
       ELSE [IdleReq EXCEPT !.op = "addToWhitelist", !.pc = "aw_save",
                            !.ballotId = ballotId, !.addresses = addresses]]
  /\ UNCHANGED <<ledgerVars, merkleTreesByBallotId, whitelist, acc>>

AddToWhitelistSave(s) ==
  /\ reqs[s].pc = "aw_save"
  /\ Len(whitelist[reqs[s].ballotId]) + Len(reqs[s].addresses) <= MaxEntries
  /\ whitelist' = SavedEntries(whitelist, reqs[s].ballotId, reqs[s].addresses)
  /\ reqs' = [reqs EXCEPT ![s].pc = "aw_find"]
  /\ UNCHANGED <<ledgerVars, merkleTreesByBallotId, acc>>

\* every row of the ballot is read, buildMerkleTree is called, the root is taken
AddToWhitelistRebuild(s) ==
  /\ reqs[s].pc = "aw_find"
  /\ merkleTreesByBallotId' =
       TreesAfterBuild(merkleTreesByBallotId, reqs[s].ballotId, whitelist[reqs[s].ballotId])
  /\ reqs' = [reqs EXCEPT
       ![s].pc = "aw_write",
       ![s].tree = BuiltTree(merkleTreesByBallotId, reqs[s].ballotId,
                             whitelist[reqs[s].ballotId]),
       ![s].root = HexRoot(BuiltTree(merkleTreesByBallotId, reqs[s].ballotId,
                                     whitelist[reqs[s].ballotId]))]
  /\ UNCHANGED <<ledgerVars, whitelist, acc>>

\* writeContract(updateMerkleRoot) and its receipt; then true is returned
AddToWhitelistWrite(s) ==
  /\ reqs[s].pc = "aw_write"
  /\ IF EncodesAsBytes32(reqs[s].root)
     THEN /\ UpdateMerkleRootTx(reqs[s].ballotId, reqs[s].root)
          /\ reqs' = [reqs EXCEPT ![s] = Returned(@, <<>>, <<>>, FALSE)]
     ELSE /\ reqs' = [reqs EXCEPT ![s] = Failed(@)]
          /\ UNCHANGED ledgerVars
  /\ UNCHANGED <<merkleTreesByBallotId, whitelist, acc>>

\* isAddressWhitelisted: a row of the ballot with the address
IsAddressWhitelisted(ballotId, address) == address \in Members(whitelist[ballotId])

\* what getProof returns from the tree it holds
ProofResponse(tree, ballotId, address) ==
  IF ~IsAddressWhitelisted(ballotId, address)
  THEN [proof |-> <<>>, merkleRoot |-> HexRoot(tree), isWhitelisted |-> FALSE]
  ELSE [proof |-> HexProof(tree, ServiceLeaf(address)), merkleRoot |-> HexRoot(tree),
        isWhitelisted |-> TRUE]

\* getProof, to its second await: ballotCount is read, the tree is looked up
StartGetProof(s, ballotId, address) ==
  /\ Free(s)
  /\ reqs' = [reqs EXCEPT ![s] =
       IF ballotId >= ballotCount \/ ~merkleTreesByBallotId[ballotId].has
       THEN Failed([IdleReq EXCEPT !.op = "getProof", !.ballotId = ballotId,
                                   !.address = address])
       ELSE [IdleReq EXCEPT !.op = "getProof", !.pc = "gp_lookup", !.ballotId = ballotId,
                            !.address = address,
                            !.tree = merkleTreesByBallotId[ballotId].leaves]]
  /\ UNCHANGED <<ledgerVars, merkleTreesByBallotId, whitelist, acc>>

\* a getProof that answers with the root of the tree the map holds when it
\* answers, not of the tree it took the proof from
GetProofLookupRereads(s) ==
  /\ reqs[s].pc = "gp_lookup"
  /\ LET r == ProofResponse(reqs[s].tree, reqs[s].ballotId, reqs[s].address)
     IN reqs' = [reqs EXCEPT ![s] =
          Returned(@, HexRoot(merkleTreesByBallotId[reqs[s].ballotId].leaves),
                   r.proof, r.isWhitelisted)]
  /\ UNCHANGED <<ledgerVars, merkleTreesByBallotId, whitelist, acc>>

\* the whitelist row is looked up and the response is made
GetProofLookup(s) ==
  /\ reqs[s].pc = "gp_lookup"
  /\ LET r == ProofResponse(reqs[s].tree, reqs[s].ballotId, reqs[s].address)
     IN reqs' = [reqs EXCEPT ![s] = Returned(@, r.merkleRoot, r.proof, r.isWhitelisted)]
  /\ UNCHANGED <<ledgerVars, merkleTreesByBallotId, whitelist, acc>>

\* getBallotInfo: ballotCount, the names, the tallies and the number of rows are
\* read; isActive is the constant true
GetBallotInfo(ballotId) ==
  IF ballotId >= ballotCount
  THEN [status |-> "error"]
  ELSE [status |-> "ok",
        proposalNames |-> GetProposalNames(ballotId),
        voteCounts |-> [i \in 1..Len(GetProposalNames(ballotId)) |->
                          GetVoteCount(ballotId, i - 1)],
        isActive |-> TRUE,
        whitelistCount |-> Len(whitelist[ballotId])]

\* address lists an operator may send
AddressLists == InjectiveSeqs(Voters, NumVoters)

(* ------------------------------ ledger spec --------------------------- *)

NoAcc == [stage |-> "off", addresses |-> <<>>, subject |-> 0, proof |-> <<>>, ok |-> FALSE]

Vote ==
  /\ \E sender \in Voters, ballotId \in IdInputs, proposalId \in ProposalInputs,
        proof \in ProofInputs : VoteTx(sender, ballotId, proposalId, proof)
  /\ UNCHANGED <<serviceVars, acc>>

CreateBallot ==
  /\ \E root \in RootInputs, names \in NameLists : CreateBallotTx(root, names)
  /\ UNCHANGED <<serviceVars, acc>>

CloseBallot ==
  /\ \E ballotId \in IdInputs : CloseBallotTx(ballotId)
  /\ UNCHANGED <<serviceVars, acc>>

UpdateMerkleRoot ==
  /\ \E ballotId \in IdInputs, root \in RootInputs : UpdateMerkleRootTx(ballotId, root)
  /\ UNCHANGED <<serviceVars, acc>>

View ==
  /\ \E ballotId \in IdInputs :
       \/ \E proposalId \in ProposalInputs : GetVoteCountCall(ballotId, proposalId)
       \/ \E voter \in Voters : HasVotedCall(ballotId, voter)
       \/ GetProposalNamesCall(ballotId)
  /\ UNCHANGED <<serviceVars, acc>>

LedgerNext == Vote \/ CreateBallot \/ CloseBallot \/ UpdateMerkleRoot \/ View

\* the contract as deployed; the service and the accumulator play no part
InitLedger ==
  /\ ballotCount = 0
  /\ ballots = [id \in BallotIds |-> EmptyBallot]
  /\ events = <<>>
  /\ last = Receipt("deploy", "ok")
  /\ merkleTreesByBallotId = [k \in TreeKeys |-> NoTree]
  /\ whitelist = [b \in BallotIds |-> <<>>]
  /\ reqs = [s \in Slots |-> IdleReq]
  /\ acc = NoAcc

SpecLedger == InitLedger /\ [][LedgerNext]_vars

(* --------------------- the accumulator on its own ---------------------- *)

Identities == 1..MaxLeaves
\* the whitelists of at most MaxLeaves identities, in every order
Whitelists == InjectiveSeqs(Identities, MaxLeaves)

\* a tree has been built by the service from a whitelist
InitMerkle ==
  /\ ballotCount = 0
  /\ ballots = [id \in BallotIds |-> EmptyBallot]
  /\ events = <<>>
  /\ last = Receipt("deploy", "ok")
  /\ merkleTreesByBallotId = [k \in TreeKeys |-> NoTree]
  /\ whitelist = [b \in BallotIds |-> <<>>]
  /\ reqs = [s \in Slots |-> IdleReq]
  /\ \E w \in Whitelists :
       acc = [stage |-> "built", addresses |-> w, subject |-> 0, proof |-> <<>>, ok |-> FALSE]

\* the service's proof for an identity
AccProof ==
  /\ acc.stage = "built"
  /\ \E a \in Identities :
       acc' = [acc EXCEPT !.stage = "proved", !.subject = a,
                          !.proof = HexProof(ServiceLeaves(acc.addresses), ServiceLeaf(a))]
  /\ UNCHANGED <<ledgerVars, serviceVars>>

\* the contract's verification of that proof against the tree's root
AccVerify ==
  /\ acc.stage = "proved"
  /\ acc' = [acc EXCEPT !.stage = "verified",
                        !.ok = Verify(acc.proof, HexRoot(ServiceLeaves(acc.addresses)),
                                      ServiceLeaf(acc.subject))]
  /\ UNCHANGED <<ledgerVars, serviceVars>>

MerkleNext == AccProof \/ AccVerify

SpecMerkle == InitMerkle /\ [][MerkleNext]_vars

\* C5: for every non-empty whitelist and every identity in it, the proof the
\* tree gives for the identity's leaf verifies against the tree's root.
C5_ProofCompleteness ==
  (acc.stage = "verified" /\ acc.subject \in Members(acc.addresses)) => acc.ok

\* the proof of the last leaf of a whitelist of odd size (the leaf promoted
\* unpaired through the lower layers) has been verified
C5_Witness ==
  /\ acc.stage = "verified"
  /\ Len(acc.addresses) % 2 = 1
  /\ Len(acc.addresses) >= 3
  /\ acc.subject = acc.addresses[Len(acc.addresses)]
  /\ Len(acc.proof) < Len(Layers(ServiceLeaves(acc.addresses))) - 1
  /\ acc.proof # <<>>
  /\ acc.ok

\* C19: the root of the tree built from a whitelist is the root of the tree
\* built from every other ordering of the same identities.
C19_BuildIsOrderIndependent ==
  \A w \in Whitelists :
    Members(w) = Members(acc.addresses) =>
      HexRoot(ServiceLeaves(w)) = HexRoot(ServiceLeaves(acc.addresses))

(* ------------------------ service and ledger --------------------------- *)

\* the contract as deployed and the service as constructed over an empty table
Init ==
  /\ ballotCount = 0
  /\ ballots = [id \in BallotIds |-> EmptyBallot]
  /\ events = <<>>
  /\ last = Receipt("deploy", "ok")
  /\ merkleTreesByBallotId = [k \in TreeKeys |-> NoTree]
  /\ whitelist = [b \in BallotIds |-> <<>>]
  /\ reqs = [s \in Slots |-> IdleReq]
  /\ acc = NoAcc

ServiceCreateBallot ==
  \E s \in Slots :
    \/ \E names \in OperatorNameLists, addresses \in AddressLists :
         StartCreateBallot(s, names, addresses)
    \/ CreateBallotWrite(s)
    \/ CreateBallotCount(s)
    \/ CreateBallotSave(s)

ServiceAddToWhitelist ==
  \E s \in Slots :
    \/ \E ballotId \in IdInputs, addresses \in AddressLists \ {<<>>} :
         StartAddToWhitelist(s, ballotId, addresses)
    \/ AddToWhitelistSave(s)
    \/ AddToWhitelistRebuild(s)
    \/ AddToWhitelistWrite(s)

ServiceGetProof ==
  \E s \in Slots :
    \/ \E ballotId \in IdInputs, address \in Voters : StartGetProof(s, ballotId, address)
    \/ GetProofLookup(s)

\* a voter sends the proof the service returned for it
VoteWithServiceProof ==
  /\ \E s \in Slots, proposalId \in ProposalInputs :
       /\ reqs[s].op = "getProof" /\ reqs[s].pc = "done" /\ reqs[s].status = "ok"
       /\ VoteTx(reqs[s].address, reqs[s].ballotId, proposalId, reqs[s].proof)
  /\ UNCHANGED <<serviceVars, acc>>

Next ==
  \/ ServiceCreateBallot
  \/ ServiceAddToWhitelist
  \/ ServiceGetProof
  \/ VoteWithServiceProof
  \/ CloseBallot

Spec == Init /\ [][Next]_vars

(* ------------------------- claims on the ledger ------------------------ *)

Existing == {b \in BallotIds : b < ballotCount}
ValidProposals(b) == {p \in ProposalInputs : p < Len(ballots[b].proposalNames)}
VoteCasts == {i \in 1..Len(events) : events[i][1] = "VoteCast"}
Closed == {events[i][2] : i \in {j \in 1..Len(events) : events[j][1] = "BallotClosed"}}

\* C1 as stated: once identity a has a vote recorded on ballot b, every further
\* vote of a on b, for every proposal index whatever, with any proof, is
\* rejected with "Already voted" while b is open, and no two votes of a on b
\* are both in the log.
C1_AlreadyVotedForEveryIndex ==
  \A i \in VoteCasts :
    LET b == events[i][2]
        a == events[i][3]
    IN /\ \A j \in VoteCasts \ {i} : ~(events[j][2] = b /\ events[j][3] = a)
       /\ ballots[b].active =>
            \A p2 \in ProposalInputs, proof \in ProofInputs :
              VoteOutcome(a, b, p2, proof) = "Already voted in this ballot"

\* C1 as amended: once identity a has a vote recorded on ballot b, no further
\* vote of a on b succeeds, whatever the index, the proof and the operations in
\* between; while b is open, every such vote for an index of the proposal list
\* (the one already chosen included) is rejected with "Already voted"; and no
\* two votes of a on b are both in the log.
C1_OneVote ==
  \A i \in VoteCasts :
    LET b == events[i][2]
        a == events[i][3]
    IN /\ \A j \in VoteCasts \ {i} : ~(events[j][2] = b /\ events[j][3] = a)
       /\ \A p2 \in ProposalInputs, proof \in ProofInputs :
            /\ VoteOutcome(a, b, p2, proof) # "ok"
            /\ (ballots[b].active /\ p2 \in ValidProposals(b)) =>
                 VoteOutcome(a, b, p2, proof) = "Already voted in this ballot"

\* a second vote of a voter was rejected as already voted, after the root of
\* its ballot was replaced by one that no longer holds the voter
C1_Witness ==
  /\ last = Receipt("vote", "Already voted in this ballot")
  /\ \E i \in VoteCasts :
       ~\E proof \in ProofInputs :
          Verify(proof, ballots[events[i][2]].merkleRoot, LedgerLeaf(events[i][3]))

\* C3: a vote that fails, for whatever reason, changes nothing of the ledger:
\* no ballot's tally, voted set, active flag, root or proposals, nor the
\* ballot count, nor the event log.
C3_FailedVoteChangesNothing ==
  [][(last'.op = "vote" /\ last'.result # "ok") =>
       (ballots' = ballots /\ ballotCount' = ballotCount /\ events' = events)]_vars

\* a vote was rejected for its proof on a ballot that already holds a vote
C3_Witness ==
  /\ last = Receipt("vote", "Invalid proof, not in whitelist")
  /\ VoteCasts # {}

\* C4: a vote is checked against the root the ballot stores now and no other:
\* in every state, whatever updateMerkleRoot calls came before, a vote of an
\* identity that has not voted on an open ballot, for a valid index, with the
\* proof generated for it against the tree of a whitelist w, is accepted when
\* the root of that tree is the stored root, and rejected as an invalid proof
\* when it is any other root (a replaced one included).
C4_CurrentRootOnly ==
  \A b \in Existing : \A p \in ValidProposals(b), w \in VoterLists :
    \A a \in Members(w) \ ballots[b].hasVoted :
      ballots[b].active =>
        VoteOutcome(a, b, p, HexProof(LedgerLeaves(w), LedgerLeaf(a))) =
          IF HexRoot(LedgerLeaves(w)) = ballots[b].merkleRoot
          THEN "ok" ELSE "Invalid proof, not in whitelist"

\* voter 1 voted on b, the root of b has since become the tree of voter 2
\* alone, voter 2 has not voted and a vote was just rejected for its proof
C4_Witness ==
  /\ last = Receipt("vote", "Invalid proof, not in whitelist")
  /\ \E b \in Existing :
       /\ ballots[b].active
       /\ ballots[b].hasVoted = {1}
       /\ ballots[b].merkleRoot = HexRoot(LedgerLeaves(<<2>>))

\* C10: once closeBallot(b) has succeeded, every vote on b, by any identity,
\* for any index and with any proof, is rejected with "Ballot is not active".
C10_ClosedRejectsVotes ==
  \A b \in Closed :
    \A a \in Voters, p \in ProposalInputs, proof \in ProofInputs :
      VoteOutcome(a, b, p, proof) = "Ballot is not active"

\* a vote was rejected on a closed ballot where some identity that has not
\* voted holds a proof that verifies against the stored root
C10_Witness ==
  /\ last = Receipt("vote", "Ballot is not active")
  /\ \E b \in Closed, a \in Voters, proof \in ProofInputs :
       /\ a \notin ballots[b].hasVoted
       /\ Verify(proof, ballots[b].merkleRoot, LedgerLeaf(a))

\* C11: a ballot is active right after its creation, and a ballot whose active
\* flag is false stays so through every createBallot, vote, updateMerkleRoot
\* and closeBallot.
C11_LifecycleOneWay ==
  [][/\ \A b \in Existing : ~ballots[b].active => ~ballots'[b].active
     /\ \A b \in BallotIds :
          (ballotCount <= b /\ b < ballotCount') => ballots'[b].active]_vars

\* a second ballot was created, active, after the first was closed
C11_Witness ==
  /\ last = Receipt("createBallot", "ok")
  /\ ballotCount = 2
  /\ ~ballots[0].active
  /\ 0 \in Closed
  /\ ballots[1].active

\* C12: no vote, updateMerkleRoot or closeBallot addressed to a ballot b2
\* changes the tally, voted set, active flag, root or proposals of another
\* ballot b1, and no createBallot changes those of an existing ballot.
C12_BallotIsolation ==
  [][\A b1 \in BallotIds :
       \/ ballots'[b1] = ballots[b1]
       \/ /\ \A b2 \in IdInputs \ {b1} :
               ~(\/ \E sender \in Voters, p \in ProposalInputs, proof \in ProofInputs :
                      VoteTx(sender, b2, p, proof)
                 \/ \E root \in RootInputs : UpdateMerkleRootTx(b2, root)
                 \/ CloseBallotTx(b2))
          /\ b1 \in Existing =>
               ~\E root \in RootInputs, names \in NameLists : CreateBallotTx(root, names)]_vars

\* two ballots: the first open and holding a vote, the second just closed
C12_Witness ==
  /\ last = Receipt("closeBallot", "ok")
  /\ ballotCount = 2
  /\ ballots[0].active /\ ballots[0].hasVoted # {}
  /\ ~ballots[1].active /\ ballots[1].hasVoted = {}

\* C13: a vote(b, p, proof) of identity a that succeeds leaves hasVoted(b, a)
\* true, getVoteCount(b, p) one higher, the count of every other proposal of b
\* and the voted status of every other identity as they were, and appends
\* exactly the event VoteCast(b, a, p).
C13_SuccessfulVoteEffect ==
  [][(last' = Receipt("vote", "ok")) =>
       \A a \in Voters, b \in BallotIds, p \in ProposalInputs, proof \in ProofInputs :
         (VoteOutcome(a, b, p, proof) = "ok" /\ VoteTx(a, b, p, proof)) =>
           /\ HasVoted(b, a)'
           /\ GetVoteCount(b, p)' = GetVoteCount(b, p) + 1
           /\ \A q \in ProposalInputs \ {p} : GetVoteCount(b, q)' = GetVoteCount(b, q)
           /\ \A c \in Voters \ {a} : HasVoted(b, c)' = HasVoted(b, c)
           /\ events' = Append(events, <<"VoteCast", b, a, p>>)]_vars

\* a vote just succeeded on a ballot where both identities have voted, one for
\* each of two proposals
C13_Witness ==
  /\ last = Receipt("vote", "ok")
  /\ \E b \in Existing :
       /\ ballots[b].hasVoted = Voters
       /\ ballots[b].proposalVotes[0] = 1
       /\ ballots[b].proposalVotes[1] = 1

\* the ids of the BallotCreated events of the log, in log order
CreatedIds ==
  LET idx == {i \in 1..Len(events) : events[i][1] = "BallotCreated"}
  IN [k \in 1..Cardinality(idx) |->
        events[CHOOSE i \in idx : Cardinality({j \in idx : j <= i}) = k][2]]

\* C14: the registry starts with no ballot; a createBallot that succeeds
\* gives its ballot the id ballotCount had and moves ballotCount on by one;
\* the ballots that exist are always those of the ids 0 .. ballotCount-1, each
\* created once; ballotCount never goes down.
C14_SequentialIds ==
  /\ ballotCount = 0
  /\ [](/\ {b \in BallotIds : ballots[b] # EmptyBallot} = 0..(ballotCount - 1)
        /\ CreatedIds = [k \in 1..ballotCount |-> k - 1])
  /\ [][/\ ballotCount' >= ballotCount
        /\ \A root \in RootInputs, names \in NameLists :
             (CreateBallotOutcome(names) = "ok" /\ CreateBallotTx(root, names)) =>
               /\ ballotCount' = ballotCount + 1
               /\ \A id \in BallotIds : id = ballotCount =>
                    /\ events' = Append(events, <<"BallotCreated", id, names>>)
                    /\ ballots'[id] # EmptyBallot]_vars

\* the registry is full, its last ballot created after a vote on the first
C14_Witness ==
  /\ last = Receipt("createBallot", "ok")
  /\ ballotCount = MaxBallots
  /\ VoteCasts # {}

\* C15: right after a createBallot(root, names) that succeeds with id, the
\* root stored for id is root, getProposalNames(id) is names in the same
\* order, getVoteCount(id, i) is 0 for every i, hasVoted(id, a) is false for
\* every identity a, and the ballot is active.
C15_NewBallotState ==
  [][\A root \in RootInputs, names \in NameLists, id \in BallotIds :
       (id = ballotCount /\ CreateBallotOutcome(names) = "ok"
          /\ CreateBallotTx(root, names)) =>
         /\ ballots'[id].merkleRoot = root
         /\ GetProposalNames(id)' = names
         /\ \A i \in ProposalInputs : GetVoteCount(id, i)' = 0
         /\ \A a \in Voters : ~HasVoted(id, a)'
         /\ ballots'[id].active]_vars

\* a ballot of two proposals was just created beside a ballot that holds a
\* vote and another root
C15_Witness ==
  /\ last = Receipt("createBallot", "ok")
  /\ ballotCount = 2
  /\ Len(ballots[1].proposalNames) = 2
  /\ ballots[0].hasVoted # {}
  /\ ballots[1].merkleRoot # ballots[0].merkleRoot

\* C16: createBallot(root, []) fails with "No proposals provided" and leaves
\* ballotCount, every ballot and the event log as they were.
C16_EmptyListRejected ==
  [][\A root \in RootInputs : CreateBallotTx(root, <<>>) =>
       /\ last' = Receipt("createBallot", "No proposals provided")
       /\ ballotCount' = ballotCount
       /\ ballots' = ballots
       /\ events' = events]_vars

\* an empty proposal list was just rejected by a registry that holds a ballot
\* with a vote
C16_Witness ==
  /\ last = Receipt("createBallot", "No proposals provided")
  /\ ballotCount = 1
  /\ VoteCasts # {}

\* C17: vote, getVoteCount, hasVoted, getProposalNames, closeBallot and
\* updateMerkleRoot each fail with "Ballot does not exist" when the id is not
\* below ballotCount, whatever the other arguments, and change no state.
C17_UnknownBallot ==
  [][\A ballotId \in IdInputs :
       (/\ ballotId >= ballotCount
        /\ \/ \E sender \in Voters, p \in ProposalInputs, proof \in ProofInputs :
                VoteTx(sender, ballotId, p, proof)
           \/ CloseBallotTx(ballotId)
           \/ \E root \in RootInputs : UpdateMerkleRootTx(ballotId, root)
           \/ \E p \in ProposalInputs : GetVoteCountCall(ballotId, p)
           \/ \E voter \in Voters : HasVotedCall(ballotId, voter)
           \/ GetProposalNamesCall(ballotId)) =>
         /\ last'.result = "Ballot does not exist"
         /\ ballotCount' = ballotCount
         /\ ballots' = ballots
         /\ events' = events]_vars

\* a call on an id that does not exist was just rejected by a registry that
\* holds an open ballot
C17_Witness ==
  /\ last.result = "Ballot does not exist"
  /\ last.op \in {"closeBallot", "updateMerkleRoot", "getVoteCount"}
  /\ ballotCount = 1
  /\ ballots[0].active

\* C18: in every step, for every ballot, the voted set keeps its members, no
\* tally goes down, and the proposal list of an existing ballot stays as it is.
C18_Monotonic ==
  [][\A b \in BallotIds :
       /\ ballots[b].hasVoted \subseteq ballots'[b].hasVoted
       /\ \A p \in ProposalInputs :
            ballots[b].proposalVotes[p] <= ballots'[b].proposalVotes[p]
       /\ b \in Existing => ballots'[b].proposalNames = ballots[b].proposalNames]_vars

\* the root of a closed ballot on which every identity has voted was replaced
C18_Witness ==
  /\ last = Receipt("updateMerkleRoot", "ok")
  /\ \E b \in Existing : ballots[b].hasVoted = Voters /\ ~ballots[b].active

\* C22: closeBallot(b) on a ballot already closed succeeds and changes
\* nothing: the ballots and the event log stay as the first close left them.
C22_CloseIsIdempotent ==
  [][\A b \in Existing :
       (~ballots[b].active /\ CloseBallotTx(b)) =>
         /\ last' = Receipt("closeBallot", "ok")
         /\ ballots' = ballots
         /\ events' = events]_vars

\* C23: updateMerkleRoot(b, newRoot) on an existing ballot succeeds whether b
\* is open or closed, stores newRoot as the root of b, and leaves the tally,
\* voted set, active flag and proposals of b, every other ballot, ballotCount
\* and the event log as they were.
C23_UpdateRootUnconditional ==
  [][\A b \in Existing, newRoot \in RootInputs :
       UpdateMerkleRootTx(b, newRoot) =>
         /\ last' = Receipt("updateMerkleRoot", "ok")
         /\ ballots' = [ballots EXCEPT ![b].merkleRoot = newRoot]
         /\ ballotCount' = ballotCount
         /\ events' = events]_vars

\* the root of a closed ballot was just replaced, beside an open ballot that
\* holds a vote and another root
C23_Witness ==
  /\ last = Receipt("updateMerkleRoot", "ok")
  /\ ballotCount = 2
  /\ ~ballots[0].active
  /\ ballots[1].active /\ ballots[1].hasVoted # {}
  /\ ballots[0].merkleRoot # ballots[1].merkleRoot

\* C24: a vote on an existing ballot for an index outside its proposal list is
\* rejected with "Invalid proposal", whether the ballot is open or closed and
\* whether or not the sender has voted.
C24_InvalidProposalFirst ==
  \A b \in Existing :
    \A a \in Voters, p \in ProposalInputs \ ValidProposals(b), proof \in ProofInputs :
      VoteOutcome(a, b, p, proof) = "Invalid proposal"

\* the identities of the VoteCast events logged for ballot b
VotersLogged(b) == {events[i][3] : i \in {j \in VoteCasts : events[j][2] = b}}

\* C31: the one-vote restriction is per ballot: an identity that has not voted
\* on b2 is never refused there as having voted, whatever it did on other
\* ballots, and its vote on b2 is accepted when the ballot is open, the index
\* valid and the proof good; hasVoted(b2, a) is true only of the identities
\* whose vote on b2 is in the log.
C31_OneVotePerBallot ==
  \A b2 \in Existing :
    /\ ballots[b2].hasVoted = VotersLogged(b2)
    /\ \A a \in Voters \ ballots[b2].hasVoted, p \in ProposalInputs, proof \in ProofInputs :
         /\ VoteOutcome(a, b2, p, proof) # "Already voted in this ballot"
         /\ (/\ ballots[b2].active
             /\ p \in ValidProposals(b2)
             /\ Verify(proof, ballots[b2].merkleRoot, LedgerLeaf(a))) =>
              VoteOutcome(a, b2, p, proof) = "ok"

\* an identity has just voted on a second ballot after voting on a first
C31_Witness ==
  /\ last = Receipt("vote", "ok")
  /\ ballotCount = 2
  /\ \E a \in Voters : a \in ballots[0].hasVoted /\ a \in ballots[1].hasVoted

\* C32: vote reports the first failure that applies, in the order: ballot
\* does not exist, ballot is not active, invalid proposal, already voted,
\* invalid proof; and succeeds when none applies.
C32_ErrorPrecedence ==
  \A a \in Voters, b \in IdInputs, p \in ProposalInputs, proof \in ProofInputs :
    LET unknown == b >= ballotCount
        closed == ~ballots[b].active
        badIndex == p >= Len(ballots[b].proposalNames)
        voted == a \in ballots[b].hasVoted
        badProof == ProcessProof(proof, LedgerLeaf(a)) # ballots[b].merkleRoot
    IN VoteOutcome(a, b, p, proof) =
         CASE unknown -> "Ballot does not exist"
           [] ~unknown /\ closed -> "Ballot is not active"
           [] ~unknown /\ ~closed /\ badIndex -> "Invalid proposal"
           [] ~unknown /\ ~closed /\ ~badIndex /\ voted -> "Already voted in this ballot"
           [] ~unknown /\ ~closed /\ ~badIndex /\ ~voted /\ badProof ->
                "Invalid proof, not in whitelist"
           [] OTHER -> "ok"

\* a vote was just refused on a closed ballot on which every identity has
\* voted: with an index out of range and a bad proof, four failures apply
C32_Witness ==
  /\ last = Receipt("vote", "Ballot is not active")
  /\ \E b \in Closed : ballots[b].hasVoted = Voters

RECURSIVE SumTo(_, _)
\* f[0] + ... + f[n]
SumTo(f, n) == IF n < 0 THEN 0 ELSE f[n] + SumTo(f, n - 1)

\* C33: for every ballot the tallies of its proposals add up to the number of
\* identities in its voted set, which is the number of VoteCast events logged
\* for it.
C33_TallyConservation ==
  \A b \in Existing :
    /\ SumTo(ballots[b].proposalVotes, Len(ballots[b].proposalNames) - 1)
         = Cardinality(ballots[b].hasVoted)
    /\ Cardinality(ballots[b].hasVoted)
         = Cardinality({i \in VoteCasts : events[i][2] = b})

\* two ballots hold one vote each
C33_Witness ==
  /\ ballotCount = 2
  /\ Cardinality(ballots[0].hasVoted) = 1
  /\ Cardinality(ballots[1].hasVoted) = 1
  /\ Cardinality(VoteCasts) = 2

\* C38: the tally of an index at or beyond the number of proposals of an
\* existing ballot is always 0, and getVoteCount for such an index succeeds.
C38_NoVotesOutsideList ==
  /\ [](\A b \in Existing : \A i \in ProposalInputs \ ValidProposals(b) :
          GetVoteCount(b, i) = 0)
  /\ [][\A b \in Existing : \A i \in ProposalInputs \ ValidProposals(b) :
          GetVoteCountCall(b, i) => last' = Receipt("getVoteCount", "ok")]_vars

\* a vote for an index out of range was just refused on an open ballot of one
\* proposal that holds a vote
C38_Witness ==
  /\ last = Receipt("vote", "Invalid proposal")
  /\ \E b \in Existing :
       /\ ballots[b].active
       /\ Len(ballots[b].proposalNames) = 1
       /\ ballots[b].hasVoted # {}

(* --------------- the ledger open to every caller, after the service ---- *)

\* the service has created ballot 0 for the whitelist <<1>> and is idle since
InitOpen ==
  /\ ballotCount = 1
  /\ ballots = [id \in BallotIds |->
       IF id = 0 THEN NewBallot(EmptyBallot, HexRoot(ServiceLeaves(<<1>>)), <<"X">>)
       ELSE EmptyBallot]
  /\ events = <<<<"BallotCreated", 0, <<"X">>>>>>
  /\ last = Receipt("createBallot", "ok")
  /\ merkleTreesByBallotId = [k \in TreeKeys |->
       IF k \in {-1, 0} THEN [has |-> TRUE, leaves |-> ServiceLeaves(<<1>>)] ELSE NoTree]
  /\ whitelist = [b \in BallotIds |-> IF b = 0 THEN <<1>> ELSE <<>>]
  /\ reqs = [s \in Slots |->
       IF s = 1
       THEN [IdleReq EXCEPT !.op = "createBallot", !.pc = "done", !.status = "ok",
                            !.ballotId = 0, !.root = HexRoot(ServiceLeaves(<<1>>))]
       ELSE IdleReq]
  /\ acc = NoAcc

\* every caller may vote, replace a root and close; no further ballot is created
OpenNext == Vote \/ UpdateMerkleRoot \/ CloseBallot

SpecOpen == InitOpen /\ [][OpenNext]_vars

(* ------------------ claims on the service and the ledger --------------- *)

\* C2: in every state, every identity in the voted set of a ballot has a row
\* in the whitelist table for that ballot, whoever sent the calls.
C2_VotersAreWhitelisted ==
  \A b \in Existing : ballots[b].hasVoted \subseteq Members(whitelist[b])

\* C6: whenever ballot b is active, its root on the ledger is the root of the
\* tree the service keeps for b, identity a has not voted on b, p is an index
\* of its proposals and getProof(b, a) answers isWhitelisted, a vote of a for
\* p with the proof of that answer is accepted; and the service derives from
\* an identity the leaf the ledger derives from it.
C6_ServiceProofIsAccepted ==
  \A b \in Existing : \A a \in Voters, p \in ValidProposals(b) :
    (/\ ballots[b].active
     /\ merkleTreesByBallotId[b].has
     /\ ballots[b].merkleRoot = HexRoot(merkleTreesByBallotId[b].leaves)
     /\ a \notin ballots[b].hasVoted
     /\ ProofResponse(merkleTreesByBallotId[b].leaves, b, a).isWhitelisted) =>
       /\ VoteOutcome(a, b, p, ProofResponse(merkleTreesByBallotId[b].leaves, b, a).proof)
            = "ok"
       /\ ServiceLeaf(a) = LedgerLeaf(a)

\* C7: every createBallot of the service creates its ballot on the ledger
\* with the root of the tree of the addresses of that very call, and keeps
\* that tree under the new ballot's id.
C7_BallotGetsItsOwnTree ==
  [][\A s \in Slots :
       /\ (reqs[s].pc = "cb_write" /\ reqs'[s].pc = "cb_count") =>
            ballots'[ballotCount].merkleRoot = HexRoot(ServiceLeaves(reqs[s].addresses))
       /\ (reqs[s].pc = "cb_count" /\ reqs'[s].pc = "cb_save") =>
            merkleTreesByBallotId'[reqs'[s].ballotId] =
              [has |-> TRUE, leaves |-> ServiceLeaves(reqs[s].addresses)]]_vars

\* the step in which addToWhitelist of slot s returns true, no other whitelist
\* change of the same ballot being under way
AddReturns(s) ==
  /\ reqs[s].pc = "aw_write"
  /\ reqs'[s].pc = "done" /\ reqs'[s].status = "ok"
  /\ \A t \in Slots \ {s} :
       ~(reqs[t].pc \in {"aw_save", "aw_find", "aw_write", "cb_count", "cb_save"}
         /\ reqs[t].ballotId = reqs[s].ballotId)

\* C8: when addToWhitelist(b, A) returns, the leaves of the tree kept for b
\* are the leaves of the identities persisted for b, those of A among them.
C8_TreeFollowsWhitelist ==
  [][\A s \in Slots : AddReturns(s) =>
       LET b == reqs[s].ballotId
       IN /\ merkleTreesByBallotId'[b].has
          /\ Members(merkleTreesByBallotId'[b].leaves) =
               {ServiceLeaf(a) : a \in Members(whitelist'[b])}
          /\ Members(reqs[s].addresses) \subseteq Members(whitelist'[b])]_vars

\* C9: when addToWhitelist(b, A) returns true, the root of b on the ledger is
\* the root of the tree over every identity persisted for b, and every
\* identity of A that has not voted gets from getProof a proof that vote
\* accepts while b is active.
C9_RootPushedBeforeSuccess ==
  [][\A s \in Slots : AddReturns(s) =>
       LET b == reqs[s].ballotId
       IN /\ ballots'[b].merkleRoot = HexRoot(ServiceLeaves(whitelist'[b]))
          /\ \A a \in Members(reqs[s].addresses), p \in ProposalInputs :
               (ballots'[b].active /\ a \notin ballots'[b].hasVoted
                  /\ p < Len(ballots'[b].proposalNames)) =>
                 /\ ProofResponse(merkleTreesByBallotId[b].leaves, b, a)'.isWhitelisted
                 /\ VoteOutcome(a, b, p,
                      ProofResponse(merkleTreesByBallotId[b].leaves, b, a).proof)' = "ok"]_vars

\* C20: getProof(b, a) answers isWhitelisted = false with an empty proof
\* whenever a has no leaf in the tree kept for b, and answers isWhitelisted =
\* true only when a has a leaf in that tree.
C20_WhitelistedMeansLeaf ==
  [][\A s \in Slots :
       (reqs[s].pc = "gp_lookup" /\ reqs'[s].pc = "done" /\ reqs'[s].status = "ok") =>
         /\ ServiceLeaf(reqs[s].address) \notin Members(reqs[s].tree) =>
              (~reqs'[s].isWhitelisted /\ reqs'[s].proof = <<>>)
         /\ reqs'[s].isWhitelisted =>
              ServiceLeaf(reqs[s].address) \in Members(reqs[s].tree)]_vars

\* C21: getProof never throws: every getProof request, whatever the ballot id
\* and the identity, ends with a response.
C21_GetProofNeverThrows ==
  \A s \in Slots :
    (reqs[s].op = "getProof" /\ reqs[s].pc = "done") => reqs[s].status = "ok"

\* C34: when getProof answers isWhitelisted = true, the proof it returns
\* verifies the leaf of the address against the root it returns.
C34_ProofResultSelfConsistent ==
  \A s \in Slots :
    (/\ reqs[s].op = "getProof" /\ reqs[s].pc = "done" /\ reqs[s].status = "ok"
     /\ reqs[s].isWhitelisted) =>
      Verify(reqs[s].proof, reqs[s].root, ServiceLeaf(reqs[s].address))

\* C37: getBallotInfo reports isActive true exactly when the ballot's active
\* flag on the ledger is true.
C37_InfoReflectsLedger ==
  \A b \in Existing : GetBallotInfo(b).isActive = ballots[b].active

\* C39: a createBallot of the service with proposal names and an empty
\* whitelist creates the ballot: its transaction is mined.
C39_EmptyWhitelistBallot ==
  [][\A s \in Slots :
       (/\ reqs[s].pc = "cb_write"
        /\ reqs[s].addresses = <<>>
        /\ reqs[s].names # <<>>) => reqs'[s].pc = "cb_count"]_vars

(* ------------- the service and another sender of createBallot --------- *)

\* the service creates ballots while any other account sends createBallot to
\* the contract
SharedNext ==
  \/ ServiceCreateBallot
  \/ CreateBallot

SpecShared == Init /\ [][SharedNext]_vars

\* C36: the id createBallot of the service takes for its ballot, keeps the tree
\* under and saves the rows under is the id of the ballot its own transaction
\* created: the ballot with that id holds the root and the names it sent.
C36_ServiceIdIsAllocatedId ==
  [][\A s \in Slots :
       (reqs[s].pc = "cb_count" /\ reqs'[s].pc = "cb_save") =>
         /\ ballots[reqs'[s].ballotId].merkleRoot = reqs[s].root
         /\ ballots[reqs'[s].ballotId].proposalNames = reqs[s].names]_vars

(* ------------------------- the service restarted ----------------------- *)

\* the call of loadExistingBallots the constructor starts and does not await
Loader == 0

\* ballotCount is read; a read that throws is caught and logged, no more
LoadCount ==
  /\ reqs[Loader].pc = "ld_count"
  /\ \/ reqs' = [reqs EXCEPT ![Loader] =
            IF 0 < ballotCount
            THEN [@ EXCEPT !.pc = "ld_find", !.ballotId = 0, !.count = ballotCount]
            ELSE [@ EXCEPT !.pc = "done", !.status = "ok", !.count = ballotCount]]
     \/ reqs' = [reqs EXCEPT ![Loader] = Failed(@)]
  /\ UNCHANGED <<ledgerVars, merkleTreesByBallotId, whitelist, acc>>

\* one turn of the loop: the rows of ballot i are read and, if there are any,
\* buildMerkleTree is called; a read that throws is caught and logged, no more
LoadBallot ==
  /\ reqs[Loader].pc = "ld_find"
  /\ LET i == reqs[Loader].ballotId
     IN \/ /\ merkleTreesByBallotId' =
                IF Len(whitelist[i]) > 0
                THEN TreesAfterBuild(merkleTreesByBallotId, i, whitelist[i])
                ELSE merkleTreesByBallotId
           /\ reqs' = [reqs EXCEPT ![Loader] =
                IF i + 1 < @.count
                THEN [@ EXCEPT !.ballotId = i + 1]
                ELSE [@ EXCEPT !.pc = "done", !.status = "ok"]]
        \/ /\ reqs' = [reqs EXCEPT ![Loader] = Failed(@)]
           /\ UNCHANGED merkleTreesByBallotId
  /\ UNCHANGED <<ledgerVars, whitelist, acc>>

LoadExistingBallots ==
  \/ LoadCount
  \/ LoadBallot

\* a new process over what an earlier one left: two ballots on the ledger,
\* their rows in the table, no tree in memory, the loader started
InitRestart ==
  /\ ballotCount = 2
  /\ ballots = [id \in BallotIds |->
       IF id = 0 THEN NewBallot(EmptyBallot, HexRoot(ServiceLeaves(<<1>>)), <<"X">>)
       ELSE IF id = 1 THEN NewBallot(EmptyBallot, HexRoot(ServiceLeaves(<<2>>)), <<"X">>)
       ELSE EmptyBallot]
  /\ events = <<<<"BallotCreated", 0, <<"X">>>>, <<"BallotCreated", 1, <<"X">>>>>>
  /\ last = Receipt("createBallot", "ok")
  /\ merkleTreesByBallotId = [k \in TreeKeys |-> NoTree]
  /\ whitelist = [b \in BallotIds |-> IF b = 0 THEN <<1>> ELSE IF b = 1 THEN <<2>> ELSE <<>>]
  /\ reqs = [s \in {Loader} \cup Slots |->
       IF s = Loader
       THEN [IdleReq EXCEPT !.op = "loadExistingBallots", !.pc = "ld_count"]
       ELSE IdleReq]
  /\ acc = NoAcc

\* the process is stopped while no call is running and started again: the
\* constructor runs over the same ledger and table, with an empty map
Restart ==
  /\ reqs[Loader].pc = "done"
  /\ \A s \in Slots : Free(s)
  /\ \E s \in Slots : reqs[s].pc = "done"
  /\ merkleTreesByBallotId' = [k \in TreeKeys |-> NoTree]
  /\ reqs' = [s \in {Loader} \cup Slots |->
       IF s = Loader
       THEN [IdleReq EXCEPT !.op = "loadExistingBallots", !.pc = "ld_count"]
       ELSE IdleReq]
  /\ UNCHANGED <<ledgerVars, whitelist, acc>>

RestartNext ==
  \/ LoadExistingBallots
  \/ ServiceGetProof
  \/ ServiceAddToWhitelist
  \/ Restart

SpecRestart == InitRestart /\ [][RestartNext]_vars

\* C25: after a start no request is taken up before loadExistingBallots has
\* finished, without a failure, and every ballot that has rows in the table
\* has the tree of exactly those rows.
C25_ReplayBeforeRequests ==
  \A s \in Slots :
    reqs[s].pc # "idle" =>
      /\ reqs[Loader].pc = "done" /\ reqs[Loader].status = "ok"
      /\ \A b \in Existing :
           whitelist[b] # <<>> => merkleTreesByBallotId[b].has

\* C35: once a start has rebuilt the trees, and before any request, the tree
\* of every ballot that has rows in the table has the ballot's root on the
\* ledger.
C35_RestartPreservesRoots ==
  (/\ reqs[Loader].pc = "done" /\ reqs[Loader].status = "ok"
   /\ \A s \in Slots : reqs[s].pc = "idle") =>
    \A b \in Existing :
      whitelist[b] # <<>> =>
        /\ merkleTreesByBallotId[b].has
        /\ HexRoot(merkleTreesByBallotId[b].leaves) = ballots[b].merkleRoot

(* ----------------------- interleaved service calls --------------------- *)

Tasks == 1..NumTasks

\* writeContract(updateMerkleRoot) or the wait for its receipt throws (the node
\* is unreachable, the transaction is rejected): addToWhitelist throws with it
AddToWhitelistWriteThrows(s) ==
  /\ reqs[s].pc = "aw_write"
  /\ reqs' = [reqs EXCEPT ![s] = Failed(@)]
  /\ UNCHANGED <<ledgerVars, merkleTreesByBallotId, whitelist, acc>>

\* ballot 0 was created on the ledger by another account; task 1 serves a
\* createBallot(["X"], [1]) whose transaction has created ballot 1 and which
\* is about to read ballotCount; task 2 is free
InitConcurrent ==
  /\ ballotCount = 2
  /\ ballots = [id \in BallotIds |->
       IF id = 0 THEN NewBallot(EmptyBallot, HexRoot(LedgerLeaves(<<1>>)), <<"X">>)
       ELSE IF id = 1 THEN NewBallot(EmptyBallot, HexRoot(ServiceLeaves(<<1>>)), <<"X">>)
       ELSE EmptyBallot]
  /\ events = <<<<"BallotCreated", 0, <<"X">>>>, <<"BallotCreated", 1, <<"X">>>>>>
  /\ last = Receipt("createBallot", "ok")
  /\ merkleTreesByBallotId = [k \in TreeKeys |->
       IF k = -1 THEN [has |-> TRUE, leaves |-> ServiceLeaves(<<1>>)] ELSE NoTree]
  /\ whitelist = [b \in BallotIds |-> <<>>]
  /\ reqs = [s \in Tasks |->
       IF s = 1
       THEN [IdleReq EXCEPT !.op = "createBallot", !.pc = "cb_count", !.names = <<"X">>,
                            !.addresses = <<1>>, !.tree = ServiceLeaves(<<1>>),
                            !.root = HexRoot(ServiceLeaves(<<1>>))]
       ELSE IdleReq]
  /\ acc = NoAcc

ConcurrentCreateBallot ==
  \E s \in Tasks :
    \/ CreateBallotCount(s)
    \/ CreateBallotSave(s)

ConcurrentAddToWhitelist ==
  \E s \in Tasks :
    \/ \E ballotId \in IdInputs, addresses \in AddressLists \ {<<>>} :
         StartAddToWhitelist(s, ballotId, addresses)
    \/ AddToWhitelistSave(s)
    \/ AddToWhitelistRebuild(s)
    \/ AddToWhitelistWrite(s)
    \/ AddToWhitelistWriteThrows(s)

ConcurrentGetProof ==
  \E s \in Tasks :
    \/ \E ballotId \in IdInputs, address \in Voters : StartGetProof(s, ballotId, address)
    \/ GetProofLookup(s)

ConcurrentNext ==
  \/ ConcurrentCreateBallot
  \/ ConcurrentAddToWhitelist
  \/ ConcurrentGetProof

SpecConcurrent == InitConcurrent /\ [][ConcurrentNext]_vars

\* C26: once two addToWhitelist calls on one ballot b have both returned, in
\* whatever way their steps interleaved, the tree kept for b holds the leaf of
\* every identity persisted for b and the root of b on the ledger is the root
\* of that tree.
C26_WritersSerialized ==
  \A b \in Existing :
    (\A s \in Tasks : /\ reqs[s].op = "addToWhitelist"
                      /\ reqs[s].pc = "done" /\ reqs[s].status = "ok"
                      /\ reqs[s].ballotId = b) =>
      /\ merkleTreesByBallotId[b].has
      /\ Members(merkleTreesByBallotId[b].leaves) =
           {ServiceLeaf(a) : a \in Members(whitelist[b])}
      /\ ballots[b].merkleRoot = HexRoot(merkleTreesByBallotId[b].leaves)

\* C27: a push of a new root that fails is tried again: no addToWhitelist
\* that has persisted its rows and is about to push its root ends with an
\* error, leaving the push undone.
C27_PushIsRetried ==
  [][\A s \in Tasks :
       reqs[s].pc = "aw_write" =>
         ~(reqs'[s].pc = "done" /\ reqs'[s].status = "error")]_vars

\* C28: the proof and the root one getProof call returns come from one tree,
\* the tree the map held for the ballot when the call read it, whatever
\* changes the map sees before the call answers.
C28_SnapshotRead ==
  [][\A s \in Tasks :
       /\ (Free(s) /\ reqs'[s].pc = "gp_lookup") =>
            /\ merkleTreesByBallotId[reqs'[s].ballotId].has
            /\ reqs'[s].tree = merkleTreesByBallotId[reqs'[s].ballotId].leaves
       /\ (reqs[s].pc = "gp_lookup" /\ reqs'[s].pc = "done" /\ reqs'[s].status = "ok") =>
            /\ reqs'[s].root = HexRoot(reqs[s].tree)
            /\ reqs'[s].isWhitelisted =>
                 reqs'[s].proof = HexProof(reqs[s].tree, ServiceLeaf(reqs[s].address))]_vars

\* a getProof has answered a whitelisted identity from the tree it had read,
\* after the map had been given another tree for the ballot
C28_Witness ==
  \E s \in Tasks :
    /\ reqs[s].op = "getProof" /\ reqs[s].pc = "done" /\ reqs[s].status = "ok"
    /\ reqs[s].isWhitelisted
    /\ reqs[s].root # HexRoot(merkleTreesByBallotId[reqs[s].ballotId].leaves)

\* C29: while the root of the tree the service keeps for b is not the root of
\* b on the ledger, getProof does not hand out an ordinary answer: neither a
\* usable proof (isWhitelisted = true) nor ineligibility (isWhitelisted = false).
C29_StalenessIsSurfaced ==
  [][\A s \in Tasks :
       (reqs[s].pc = "gp_lookup" /\ reqs'[s].pc = "done" /\ reqs'[s].status = "ok") =>
         HexRoot(reqs[s].tree) = ballots[reqs[s].ballotId].merkleRoot]_vars

(* ------------------- an identity outside the whitelist ----------------- *)

\* every digest of the tree over the leaves: its leaves, inner nodes and root
Digests(leaves) ==
  UNION {Members(Layers(leaves)[k]) : k \in 1..Len(Layers(leaves))}

\* the sequences of at most n members of S
BoundedSeqs(S, n) == UNION {[1..k -> S] : k \in 0..n}

\* proofs made of digests of the tree of whitelist w: the empty proof, the
\* proof of every member, and every sequence of at most MaxForgedLen digests
ForgedProofs(w) ==
  {HexProof(LedgerLeaves(w), LedgerLeaf(w[i])) : i \in 1..Len(w)}
    \cup BoundedSeqs(Digests(LedgerLeaves(w)), MaxForgedLen)

\* a ballot of two proposals was created with the root of the tree the voters
\* built over a whitelist that leaves some identity out
InitOutsider ==
  /\ ballotCount = 1
  /\ \E w \in Whitelists :
       /\ 0 < Len(w) /\ Len(w) <= MaxWhitelist /\ Len(w) < MaxLeaves
       /\ ballots = [id \in BallotIds |->
            IF id = 0 THEN NewBallot(EmptyBallot, HexRoot(LedgerLeaves(w)), <<"X", "Y">>)
            ELSE EmptyBallot]
       /\ acc = [stage |-> "ballot", addresses |-> w, subject |-> 0, proof |-> <<>>,
                 ok |-> FALSE]
  /\ events = <<<<"BallotCreated", 0, <<"X", "Y">>>>>>
  /\ last = Receipt("createBallot", "ok")
  /\ merkleTreesByBallotId = [k \in TreeKeys |-> NoTree]
  /\ whitelist = [b \in BallotIds |-> <<>>]
  /\ reqs = [s \in Slots |-> IdleReq]

\* an identity of the whitelist votes with its proof
MemberVote ==
  /\ \E a \in Members(acc.addresses), proposalId \in ProposalInputs :
       VoteTx(a, 0, proposalId, HexProof(LedgerLeaves(acc.addresses), LedgerLeaf(a)))
  /\ UNCHANGED <<serviceVars, acc>>

\* an identity outside the whitelist votes with a proof it made up
OutsiderVote ==
  /\ \E a \in Identities \ Members(acc.addresses), proposalId \in ProposalInputs,
        proof \in ForgedProofs(acc.addresses) : VoteTx(a, 0, proposalId, proof)
  /\ UNCHANGED <<serviceVars, acc>>

OutsiderNext == MemberVote \/ OutsiderVote

SpecOutsider == InitOutsider /\ [][OutsiderNext]_vars

\* C30: on a ballot whose root is the root of the tree of a whitelist W, a
\* vote of an identity outside W fails for its proof, whatever proof it makes
\* of the digests of that tree (the proof of a member, any path of digests,
\* the empty proof), and no such identity is ever in the voted set, the tally
\* counting the votes of members only.
C30_OutsiderCannotVote ==
  /\ ballots[0].hasVoted \subseteq Members(acc.addresses)
  /\ ballots[0].proposalVotes[0] + ballots[0].proposalVotes[1]
       = Cardinality(ballots[0].hasVoted)
  /\ ballots[0].active =>
       \A a \in Identities \ Members(acc.addresses), p \in ValidProposals(0),
          proof \in ForgedProofs(acc.addresses) :
         VoteOutcome(a, 0, p, proof) = "Invalid proof, not in whitelist"

\* a vote was just rejected for its proof on an open ballot of three members,
\* all of which have voted
C30_Witness ==
  /\ last = Receipt("vote", "Invalid proof, not in whitelist")
  /\ Len(acc.addresses) = 3
  /\ ballots[0].hasVoted = Members(acc.addresses)
  /\ ballots[0].active

====
